---- MODULE Spec2Model ----
(***************************************************************************)
(* Slot-based outfit session state machine of the Roblox outfit agents:    *)
(* agents/contracts.py (SessionState), agents/memory.py (USER_SESSIONS),    *)
(* agents/conversation_agent.py (apply_plan, run_conversation_agent),       *)
(* agents/stylist_agent.py (plan_tools, detect_target_slot),                *)
(* agents/tools.py and agents/roblox_catalog_client.py (lookup, map_items). *)
(*                                                                         *)
(* Python str values are TLA+ strings; TLC evaluates Len, SubSeq and \o on  *)
(* them.  A Python dict is a sequence of [k, v] records in insertion order. *)
(***************************************************************************)
EXTENDS Integers, Sequences, FiniteSets, TLC

\* ------------------------------------------------------------------ bounds
\* largest candidate pool one catalog lookup returns
MaxPool == 2
\* number of apply_plan invocations made over one run
MaxCalls == 2
\* number of run_conversation_agent turns made over one run
MaxTurns == 2

\* ------------------------------------------------------------ text helpers
\* str.lower() on one character
LowerChar(c) ==
  CASE c = "A" -> "a" [] c = "B" -> "b" [] c = "C" -> "c" [] c = "D" -> "d"
    [] c = "E" -> "e" [] c = "F" -> "f" [] c = "G" -> "g" [] c = "H" -> "h"
    [] c = "I" -> "i" [] c = "J" -> "j" [] c = "K" -> "k" [] c = "L" -> "l"
    [] c = "M" -> "m" [] c = "N" -> "n" [] c = "O" -> "o" [] c = "P" -> "p"
    [] c = "Q" -> "q" [] c = "R" -> "r" [] c = "S" -> "s" [] c = "T" -> "t"
    [] c = "U" -> "u" [] c = "V" -> "v" [] c = "W" -> "w" [] c = "X" -> "x"
    [] c = "Y" -> "y" [] c = "Z" -> "z" [] OTHER -> c

RECURSIVE Lower(_)
\* str.lower()
Lower(s) ==
  IF Len(s) = 0 THEN "" ELSE LowerChar(SubSeq(s, 1, 1)) \o Lower(Tail(s))

\* the characters str.strip() and str.split() treat as whitespace
IsSpace(c) == c \in {" ", "\t", "\n"}

RECURSIVE LStrip(_)
LStrip(s) ==
  IF Len(s) > 0 /\ IsSpace(SubSeq(s, 1, 1)) THEN LStrip(Tail(s)) ELSE s

RECURSIVE RStrip(_)
RStrip(s) ==
  IF Len(s) > 0 /\ IsSpace(SubSeq(s, Len(s), Len(s)))
  THEN RStrip(SubSeq(s, 1, Len(s) - 1)) ELSE s

\* str.strip()
Strip(s) == RStrip(LStrip(s))

\* Python's  kw in text  on strings
Contains(text, kw) ==
  \E i \in 1..(Len(text) - Len(kw) + 1) : SubSeq(text, i, i + Len(kw) - 1) = kw

\* any(word in text for word in words)
AnyIn(words, text) ==
  \E i \in 1..Len(words) : Contains(text, words[i])

RECURSIVE SplitFrom(_, _)
\* str.split(): the maximal runs of non-whitespace, left to right;
\* cur is the run being read
SplitFrom(s, cur) ==
  IF Len(s) = 0 THEN (IF cur = "" THEN << >> ELSE <<cur>>)
  ELSE IF IsSpace(SubSeq(s, 1, 1))
       THEN (IF cur = "" THEN << >> ELSE <<cur>>) \o SplitFrom(Tail(s), "")
       ELSE SplitFrom(Tail(s), cur \o SubSeq(s, 1, 1))

Split(s) == SplitFrom(s, "")

RECURSIVE Join(_, _)
\* sep.join(parts)
Join(sep, parts) ==
  IF Len(parts) = 0 THEN ""
  ELSE IF Len(parts) = 1 THEN parts[1]
  ELSE parts[1] \o sep \o Join(sep, Tail(parts))

\* seq[:n]
Take(seq, n) == SubSeq(seq, 1, IF Len(seq) < n THEN Len(seq) ELSE n)

Digits == <<"0", "1", "2", "3", "4", "5", "6", "7", "8", "9">>

IsDigit(c) == \E d \in 1..10 : Digits[d] = c

DigitVal(c) == (CHOOSE d \in 1..10 : Digits[d] = c) - 1

RECURSIVE IntStr(_)
\* str(n) of a non-negative int
IntStr(n) ==
  IF n < 10 THEN Digits[n + 1] ELSE IntStr(n \div 10) \o Digits[(n % 10) + 1]

RECURSIVE StrInt(_)
\* int(s) of a string of decimal digits
StrInt(s) ==
  IF Len(s) = 0 THEN 0
  ELSE StrInt(SubSeq(s, 1, Len(s) - 1)) * 10 + DigitVal(SubSeq(s, Len(s), Len(s)))

\* ------------------------------------------------------------ dict helpers
\* the keys of a dict, in insertion order: list(d.keys())
RECURSIVE DictKeys(_)
DictKeys(d) ==
  IF Len(d) = 0 THEN << >> ELSE <<d[1].k>> \o DictKeys(Tail(d))

\* key in d
DictHas(d, key) == \E i \in 1..Len(d) : d[i].k = key

\* d[key], for a key the dict has
DictGet(d, key) == d[CHOOSE i \in 1..Len(d) : d[i].k = key].v

\* d[key] = val : an existing key keeps its position, a new key goes last
DictSet(d, key, val) ==
  IF DictHas(d, key)
  THEN [i \in 1..Len(d) |-> IF d[i].k = key THEN [k |-> key, v |-> val] ELSE d[i]]
  ELSE Append(d, [k |-> key, v |-> val])

\* ------------------------------------------------------------------ tables
\* the value Python's None takes where a string is expected
None == "None"
\* an absent int-valued key of a params dict (MinPrice, MaxPrice, Genres)
NoInt == -1
\* an absent str-valued key of a params dict (Keyword)
NoStr == ""

\* stylist_agent.SLOT_TOOL_MAP, in declaration order
SLOT_TOOL_MAP ==
  << [k |-> "Head", v |-> "search_hats"],
     [k |-> "Face", v |-> "search_faces"],
     [k |-> "Hair", v |-> "search_hair"],
     [k |-> "Back Accessory", v |-> "search_back_accessories"],
     [k |-> "Neck Accessory", v |-> "search_neck_accessories"],
     [k |-> "Shoulder Accessory", v |-> "search_shoulder_accessories"],
     [k |-> "Front Accessory", v |-> "search_front_accessories"],
     [k |-> "Waist Accessory", v |-> "search_waist_accessories"],
     [k |-> "Shirt", v |-> "search_shirts"],
     [k |-> "T-Shirt", v |-> "search_tshirts"],
     [k |-> "Pants", v |-> "search_pants"],
     [k |-> "Head (Body Part)", v |-> "search_heads"],
     [k |-> "Dynamic Head", v |-> "search_dynamic_heads"],
     [k |-> "Bundle", v |-> "search_bundles"],
     [k |-> "Emote", v |-> "search_emotes"] >>

\* apply_plan's tool_map: tool name -> the subcategory the tool of
\* agents/tools.py passes to _search_with
tool_map ==
  << [k |-> "search_hats", v |-> 9],
     [k |-> "search_faces", v |-> 10],
     [k |-> "search_hair", v |-> 20],
     [k |-> "search_back_accessories", v |-> 25],
     [k |-> "search_neck_accessories", v |-> 22],
     [k |-> "search_shoulder_accessories", v |-> 23],
     [k |-> "search_front_accessories", v |-> 24],
     [k |-> "search_waist_accessories", v |-> 26],
     [k |-> "search_shirts", v |-> 12],
     [k |-> "search_tshirts", v |-> 13],
     [k |-> "search_pants", v |-> 14],
     [k |-> "search_heads", v |-> 15],
     [k |-> "search_dynamic_heads", v |-> 66],
     [k |-> "search_bundles", v |-> 37],
     [k |-> "search_emotes", v |-> 39] >>

\* roblox_catalog_client.SUBCATEGORY_SLOT
SUBCATEGORY_SLOT ==
  << [k |-> 9, v |-> "Head"],
     [k |-> 54, v |-> "Head"],
     [k |-> 10, v |-> "Face"],
     [k |-> 20, v |-> "Hair"],
     [k |-> 22, v |-> "Neck Accessory"],
     [k |-> 23, v |-> "Shoulder Accessory"],
     [k |-> 24, v |-> "Front Accessory"],
     [k |-> 25, v |-> "Back Accessory"],
     [k |-> 26, v |-> "Waist Accessory"],
     [k |-> 12, v |-> "Shirt"],
     [k |-> 13, v |-> "T-Shirt"],
     [k |-> 14, v |-> "Pants"],
     [k |-> 15, v |-> "Head (Body Part)"],
     [k |-> 66, v |-> "Dynamic Head"],
     [k |-> 37, v |-> "Bundle"],
     [k |-> 39, v |-> "Emote"] >>

\* the keyword -> slot table of detect_target_slot, in declaration order
slot_keywords ==
  << [k |-> "head", v |-> "Head"],
     [k |-> "headgear", v |-> "Head"],
     [k |-> "helmet", v |-> "Head"],
     [k |-> "hat", v |-> "Head"],
     [k |-> "face", v |-> "Face"],
     [k |-> "hair", v |-> "Hair"],
     [k |-> "shirt", v |-> "Shirt"],
     [k |-> "top", v |-> "Shirt"],
     [k |-> "pants", v |-> "Pants"],
     [k |-> "trousers", v |-> "Pants"],
     [k |-> "back", v |-> "Back Accessory"],
     [k |-> "cape", v |-> "Back Accessory"],
     [k |-> "wings", v |-> "Back Accessory"],
     [k |-> "neck", v |-> "Neck Accessory"],
     [k |-> "necklace", v |-> "Neck Accessory"] >>

\* the keyword -> slot table of the show-more rule of run_conversation_agent
more_slot_keywords ==
  << [k |-> "head", v |-> "Head"],
     [k |-> "headgear", v |-> "Head"],
     [k |-> "helmet", v |-> "Head"],
     [k |-> "hat", v |-> "Head"],
     [k |-> "face", v |-> "Face"],
     [k |-> "hair", v |-> "Hair"],
     [k |-> "shirt", v |-> "Shirt"],
     [k |-> "top", v |-> "Shirt"],
     [k |-> "pants", v |-> "Pants"],
     [k |-> "trousers", v |-> "Pants"],
     [k |-> "back", v |-> "Back Accessory"],
     [k |-> "cape", v |-> "Back Accessory"],
     [k |-> "wings", v |-> "Back Accessory"],
     [k |-> "neck", v |-> "Neck Accessory"],
     [k |-> "necklace", v |-> "Neck Accessory"] >>

\* param_helpers.STYLE_TO_GENRE: style word -> genre id, first match wins in
\* declaration order (the keyword groups of detect_genre)
STYLE_TO_GENRE ==
  << [k |-> "medieval", v |-> 2], [k |-> "knight", v |-> 2],
     [k |-> "castle", v |-> 2], [k |-> "armor", v |-> 2],
     [k |-> "sci-fi", v |-> 3], [k |-> "scifi", v |-> 3],
     [k |-> "futuristic", v |-> 3], [k |-> "space", v |-> 3],
     [k |-> "robot", v |-> 3],
     [k |-> "fighting", v |-> 4], [k |-> "combat", v |-> 4],
     [k |-> "warrior", v |-> 4],
     [k |-> "horror", v |-> 5], [k |-> "scary", v |-> 5],
     [k |-> "spooky", v |-> 5], [k |-> "zombie", v |-> 5],
     [k |-> "western", v |-> 10], [k |-> "cowboy", v |-> 10],
     [k |-> "sheriff", v |-> 10],
     [k |-> "military", v |-> 11], [k |-> "soldier", v |-> 11],
     [k |-> "army", v |-> 11],
     [k |-> "rpg", v |-> 15], [k |-> "fantasy", v |-> 15],
     [k |-> "magic", v |-> 15] >>

\* the value of the first table entry whose keyword occurs in text
\* (for k, v in table.items(): if k in text: ...; break), dflt when none does
FirstMatch(table, text, dflt) ==
  IF \E i \in 1..Len(table) : Contains(text, table[i].k)
  THEN table[CHOOSE i \in 1..Len(table) :
               /\ Contains(text, table[i].k)
               /\ \A j \in 1..(i - 1) : ~Contains(text, table[j].k)].v
  ELSE dflt

\* ------------------------------------------------- param_helpers.parse_price
RECURSIVE DigitRun(_, _)
\* the number of consecutive digits of s from position i on: what \d+ takes
DigitRun(s, i) ==
  IF i <= Len(s) /\ IsDigit(SubSeq(s, i, i)) THEN 1 + DigitRun(s, i + 1) ELSE 0

RECURSIVE SpaceRun(_, _)
\* the number of consecutive whitespace characters of s from position i on:
\* what \s* takes
SpaceRun(s, i) ==
  IF i <= Len(s) /\ IsSpace(SubSeq(s, i, i)) THEN 1 + SpaceRun(s, i + 1) ELSE 0

\* s has the literal w at position i
StartsAt(s, i, w) ==
  /\ i + Len(w) - 1 <= Len(s)
  /\ SubSeq(s, i, i + Len(w) - 1) = w

\* the position of the number when  (?:w1|w2|...)\s*(\d+)  matches at i, else 0
WordNumberAt(s, i, words) ==
  IF \E n \in 1..Len(words) : StartsAt(s, i, words[n])
  THEN LET w == words[CHOOSE n \in 1..Len(words) :
                       /\ StartsAt(s, i, words[n])
                       /\ \A m \in 1..(n - 1) : ~StartsAt(s, i, words[m])]
           j == i + Len(w) + SpaceRun(s, i + Len(w))
       IN IF DigitRun(s, j) > 0 THEN j ELSE 0
  ELSE 0

\* re.search(r'(?:w1|w2|...)\s*(\d+)', s): int(group(1)) of the leftmost
\* match, NoInt when there is no match
SearchWordNumber(s, words) ==
  IF \E i \in 1..Len(s) : WordNumberAt(s, i, words) > 0
  THEN LET i == CHOOSE i \in 1..Len(s) :
                  /\ WordNumberAt(s, i, words) > 0
                  /\ \A h \in 1..(i - 1) : WordNumberAt(s, h, words) = 0
           j == WordNumberAt(s, i, words)
       IN StrInt(SubSeq(s, j, j + DigitRun(s, j) - 1))
  ELSE NoInt

\* the separators of the range pattern  (?:-|to|en dash); the texts of the
\* model are ASCII, so the en dash alternative never matches in them
RangeSeparators == <<"-", "to">>

\* the position of the second number when  (\d+)\s*(?:-|to)\s*(\d+)
\* matches at i, else 0
RangeAt(s, i) ==
  LET d == DigitRun(s, i)
      j == i + d + SpaceRun(s, i + d)
  IN IF d > 0 /\ \E n \in 1..Len(RangeSeparators) : StartsAt(s, j, RangeSeparators[n])
     THEN LET sep == RangeSeparators[CHOOSE n \in 1..Len(RangeSeparators) :
                                       StartsAt(s, j, RangeSeparators[n])]
              k == j + Len(sep) + SpaceRun(s, j + Len(sep))
          IN IF DigitRun(s, k) > 0 THEN k ELSE 0
     ELSE 0

\* parse_price, were a range to fill only the keys that under/over left absent
parse_price_range_fills_gaps(text0) ==
  LET number(text, i) == StrInt(SubSeq(text, i, i + DigitRun(text, i) - 1))
      words(text) ==
        [MinPrice |-> SearchWordNumber(text, <<"over", "above", "more than">>),
         MaxPrice |-> SearchWordNumber(text, <<"under", "below", "less than">>)]
      fill(w, text, ri) ==
        [MinPrice |-> IF w.MinPrice # NoInt THEN w.MinPrice ELSE number(text, ri),
         MaxPrice |-> IF w.MaxPrice # NoInt THEN w.MaxPrice
                      ELSE number(text, RangeAt(text, ri))]
      parsed(text) ==
        IF \E i \in 1..Len(text) : RangeAt(text, i) > 0
        THEN fill(words(text), text,
                  CHOOSE i \in 1..Len(text) :
                    /\ RangeAt(text, i) > 0
                    /\ \A h \in 1..(i - 1) : RangeAt(text, h) = 0)
        ELSE words(text)
  IN parsed(Strip(Lower(text0)))

\* parse_price(text): the dict as [MinPrice, MaxPrice], NoInt for an absent key
parse_price(text0) ==
  LET number(text, i) == StrInt(SubSeq(text, i, i + DigitRun(text, i) - 1))
      range(text, ri, rk) ==
        [MinPrice |-> number(text, ri), MaxPrice |-> number(text, rk)]
      range_from(text, ri) == range(text, ri, RangeAt(text, ri))
      parsed(text) ==
        IF \E i \in 1..Len(text) : RangeAt(text, i) > 0
        THEN range_from(text, CHOOSE i \in 1..Len(text) :
                                 /\ RangeAt(text, i) > 0
                                 /\ \A h \in 1..(i - 1) : RangeAt(text, h) = 0)
        ELSE [MinPrice |-> SearchWordNumber(text, <<"over", "above", "more than">>),
              MaxPrice |-> SearchWordNumber(text, <<"under", "below", "less than">>)]
  IN parsed(Strip(Lower(text0)))

\* ---------------------------------------------------- stylist_agent.plan_tools
\* the words plan_tools never takes as a keyword
FillerWords ==
  {"want", "need", "looking", "find", "outfit", "clothes", "items", "gear"}

\* base_params of plan_tools: genre, price constraints and keyword of the text
base_params(user_text) ==
  LET keyword(meaningful_words) ==
        IF Len(meaningful_words) > 0
        THEN Join(" ", Take(meaningful_words, 3)) ELSE NoStr
      update(text_lower, price_params, words) ==
        [Genres |-> FirstMatch(STYLE_TO_GENRE, text_lower, NoInt),
         MinPrice |-> price_params.MinPrice,
         MaxPrice |-> price_params.MaxPrice,
         Keyword |-> keyword(SelectSeq(words,
                       LAMBDA w : Len(w) > 3 /\ Lower(w) \notin FillerWords))]
  IN update(Lower(user_text), parse_price(user_text), Split(user_text))

\* core_slots, were the accessories of a theme to come before the core pieces
core_slots_accessories_first(text_lower) ==
  (IF AnyIn(<<"knight", "medieval", "armor", "warrior">>, text_lower)
     THEN <<"Back Accessory", "Front Accessory">>
   ELSE IF AnyIn(<<"ninja", "stealth", "dark">>, text_lower)
     THEN <<"Face", "Back Accessory">>
   ELSE IF AnyIn(<<"casual", "everyday", "simple">>, text_lower)
     THEN << >>
   ELSE IF AnyIn(<<"fancy", "formal", "elegant">>, text_lower)
     THEN <<"Neck Accessory">>
   ELSE <<"Back Accessory">>)
  \o <<"Head", "Shirt", "Pants">>

\* the slots of a new outfit: the core pieces, then the accessories of the
\* first theme whose keywords occur in the text
core_slots(text_lower) ==
  <<"Head", "Shirt", "Pants">> \o
  (IF AnyIn(<<"knight", "medieval", "armor", "warrior">>, text_lower)
     THEN <<"Back Accessory", "Front Accessory">>
   ELSE IF AnyIn(<<"ninja", "stealth", "dark">>, text_lower)
     THEN <<"Face", "Back Accessory">>
   ELSE IF AnyIn(<<"casual", "everyday", "simple">>, text_lower)
     THEN << >>
   ELSE IF AnyIn(<<"fancy", "formal", "elegant">>, text_lower)
     THEN <<"Neck Accessory">>
   ELSE <<"Back Accessory">>)

\* the most steps a new-outfit plan keeps (plan[:5])
PlanCap == 5

\* plan_tools, were replace mode to plan the core pieces after the target slot
plan_tools_target_first(user_text, target_slot) ==
  LET plan(params, slots) ==
        [i \in 1..Len(slots) |->
           [slot |-> slots[i],
            tool |-> DictGet(SLOT_TOOL_MAP, slots[i]),
            params |-> params]]
  IN plan(base_params(user_text),
          IF target_slot # None /\ target_slot # ""
             /\ DictHas(SLOT_TOOL_MAP, target_slot)
          THEN <<target_slot, "Shirt", "Pants">>
          ELSE SelectSeq(core_slots(Lower(user_text)),
                         LAMBDA sl : DictHas(SLOT_TOOL_MAP, sl)))

\* plan_tools(user_text, target_slot); target_slot = None for a new outfit
plan_tools(user_text, target_slot) ==
  LET plan(params, slots) ==
        IF target_slot # None /\ target_slot # ""
           /\ DictHas(SLOT_TOOL_MAP, target_slot)
        THEN << [slot |-> target_slot,
                 tool |-> DictGet(SLOT_TOOL_MAP, target_slot),
                 params |-> params] >>
        ELSE Take([i \in 1..Len(slots) |->
                     [slot |-> slots[i],
                      tool |-> DictGet(SLOT_TOOL_MAP, slots[i]),
                      params |-> params]], PlanCap)
  IN plan(base_params(user_text),
          SelectSeq(core_slots(Lower(user_text)),
                    LAMBDA sl : DictHas(SLOT_TOOL_MAP, sl)))

\* detect_target_slot(user_text): the slot to replace, None when the text has
\* no replacement word or no slot keyword
detect_target_slot(user_text) ==
  LET text_lower == Lower(user_text)
  IN IF ~AnyIn(<<"change", "replace", "swap", "different", "new">>, text_lower)
     THEN None
     ELSE FirstMatch(slot_keywords, text_lower, None)

\* ------------------------------------------------------ contracts / memory
\* the fields the pydantic model SessionState declares; reading any other
\* attribute of a session raises AttributeError
SessionStateFields == {"current_outfit", "last_params_by_slot"}

\* SessionState(): current_outfit is Outfit.items (slot -> assetId) and
\* last_params_by_slot is slot -> params.  last_index_by_slot (slot -> index)
\* is the storage apply_plan addresses; it is reachable only when
\* SessionStateFields has the attribute, and stays empty otherwise.
SessionState ==
  [current_outfit |-> << >>,
   last_params_by_slot |-> << >>,
   last_index_by_slot |-> << >>]

\* get_session, were it to make a new SessionState on every call
get_session_always_new(sessions, user_id) ==
  [u \in DOMAIN sessions \cup {user_id} |->
     IF u = user_id THEN SessionState ELSE sessions[u]]

\* get_session, were the creation of a session to reset every other one
get_session_resets_others(sessions, user_id) ==
  IF user_id \in DOMAIN sessions THEN sessions
  ELSE [u \in DOMAIN sessions \cup {user_id} |-> SessionState]

\* get_session(user_id) on the session table: create on first use
get_session(sessions, user_id) ==
  IF user_id \in DOMAIN sessions THEN sessions
  ELSE sessions @@ (user_id :> SessionState)

\* ------------------------------------------- conversation_agent, one turn
\* the greeting rule of run_conversation_agent
IsGreeting(prompt_lower) ==
  /\ AnyIn(<<"hi", "hello", "hey", "sup">>, prompt_lower)
  /\ Len(prompt_lower) < 10

\* the show-more rule of run_conversation_agent
IsMoreRequest(prompt_lower) ==
  AnyIn(<<"more", "another", "different", "other">>, prompt_lower)

\* last_params, were it to take the params stored first, whatever the slot
last_params_first_stored(session, slot) == session.last_params_by_slot[1].v

\* the params a show_more plan reuses: session.last_params_by_slot[slot].copy()
last_params(session, slot) == DictGet(session.last_params_by_slot, slot)

\* a returned dict without a "plan" key
NoPlanResult(action, reply) ==
  [action |-> action, reply |-> reply, has_plan |-> FALSE, plan |-> << >>,
   outfit |-> << >>]

\* a returned dict with a "plan" key
PlanResult(action, reply, plan) ==
  [action |-> action, reply |-> reply, has_plan |-> TRUE, plan |-> plan,
   outfit |-> << >>]

\* the "more" branch of run_conversation_agent
show_more_result(prompt_lower, session) ==
  LET more_target_slot == FirstMatch(more_slot_keywords, prompt_lower, None)
  IN IF more_target_slot # None
        /\ DictHas(session.last_params_by_slot, more_target_slot)
     THEN PlanResult("show_more",
            "I'll find more " \o Lower(more_target_slot) \o " options for you!",
            << [slot |-> more_target_slot,
                tool |-> IF DictHas(SLOT_TOOL_MAP, more_target_slot)
                         THEN DictGet(SLOT_TOOL_MAP, more_target_slot)
                         ELSE "search_hats",
                params |-> last_params(session, more_target_slot)] >>)
     ELSE IF Len(session.last_params_by_slot) > 0
     THEN NoPlanResult("clarify",
            "Which item would you like more options for? I have suggestions for: "
            \o Lower(Join(", ", DictKeys(session.last_params_by_slot))))
     ELSE NoPlanResult("clarify",
            "I haven't made any suggestions yet. What kind of outfit are you looking for?")

\* the replacement branch of run_conversation_agent
replace_result(prompt, target_slot) ==
  LET answer(plan) ==
        IF Len(plan) = 0
        THEN NoPlanResult("clarify",
               "What kind of " \o Lower(target_slot) \o " are you looking for?")
        ELSE PlanResult("replace",
               "I'll find a new " \o Lower(target_slot) \o " for you!", plan)
  IN answer(plan_tools(prompt, target_slot))

\* the new-outfit branch of run_conversation_agent
new_outfit_result(prompt) ==
  LET answer(plan) ==
        IF Len(plan) = 0
        THEN NoPlanResult("clarify",
               "What style of outfit are you looking for? For example: medieval knight, casual wear, or futuristic gear?")
        ELSE PlanResult("new_outfit", "I'll put together an outfit for you!", plan)
  IN answer(plan_tools(prompt, None))

\* run_conversation_agent, were the show-more rule tried before the replace rule
run_conversation_agent_more_first(prompt, session) ==
  LET prompt_lower == Strip(Lower(prompt))
      target_slot == detect_target_slot(prompt)
  IN IF IsGreeting(prompt_lower)
     THEN NoPlanResult("greet",
            "Hi! I'm here to help you build awesome Roblox outfits. What kind of style are you looking for?")
     ELSE IF IsMoreRequest(prompt_lower)
     THEN show_more_result(prompt_lower, session)
     ELSE IF target_slot # None /\ target_slot # ""
     THEN replace_result(prompt, target_slot)
     ELSE new_outfit_result(prompt)

\* run_conversation_agent(prompt, user_id), given the session get_session
\* returned: the rules in the order the code tries them
run_conversation_agent(prompt, session) ==
  LET prompt_lower == Strip(Lower(prompt))
      target_slot == detect_target_slot(prompt)
  IN IF IsGreeting(prompt_lower)
     THEN NoPlanResult("greet",
            "Hi! I'm here to help you build awesome Roblox outfits. What kind of style are you looking for?")
     ELSE IF target_slot # None /\ target_slot # ""
     THEN replace_result(prompt, target_slot)
     ELSE IF IsMoreRequest(prompt_lower)
     THEN show_more_result(prompt_lower, session)
     ELSE new_outfit_result(prompt)

\* ---------------------------------------------- catalog lookup and map_items
\* it.get("subcategory") or it.get("subCategory") of a raw record
raw_subcat(it) ==
  IF it.subcategory \notin {NoInt, 0} THEN it.subcategory ELSE it.subCategory

RECURSIVE map_all(_, _)
\* the loop of map_items: records without an id are skipped
map_all(raw, default_slot) ==
  IF Len(raw) = 0 THEN << >>
  ELSE (IF raw[1].id = NoInt THEN << >>
        ELSE << [assetId |-> IntStr(raw[1].id),
                 type |-> IF DictHas(SUBCATEGORY_SLOT, raw_subcat(raw[1]))
                          THEN DictGet(SUBCATEGORY_SLOT, raw_subcat(raw[1]))
                          ELSE IF default_slot \notin {None, ""} THEN default_slot
                          ELSE "Unknown"] >>)
       \o map_all(Tail(raw), default_slot)

\* the most items map_items returns (out[:10])
ItemCap == 10

\* map_items, were it to cut the raw list before it drops the records
\* without an id
map_items_cap_first(raw, default_slot) ==
  map_all(Take(raw, ItemCap), default_slot)

\* roblox_catalog_client.map_items(raw, default_slot)
map_items(raw, default_slot) == Take(map_all(raw, default_slot), ItemCap)

\* a raw catalog record of subcategory sc
RawRecord(sc, i) == [id |-> sc * 100 + i, subcategory |-> sc, subCategory |-> NoInt]

\* a raw catalog record that carries no id
NullRecord(sc) == [id |-> NoInt, subcategory |-> sc, subCategory |-> NoInt]

\* the first n records of the catalog of subcategory sc
FirstRecords(sc, n) == [i \in 1..n |-> RawRecord(sc, i)]

\* the raw lists catalog_search may answer a request for subcategory sc with:
\* pools of every size up to MaxPool, the largest one also in reverse order,
\* and a partial response whose first record has no id
CatalogResponses(sc) ==
  { FirstRecords(sc, n) : n \in 0..MaxPool }
  \cup { [i \in 1..MaxPool |-> RawRecord(sc, MaxPool + 1 - i)] }
  \cup { <<NullRecord(sc)>> \o FirstRecords(sc, 1) }

\* what  await tool_map[tool_name](**params)  may produce: a list of mapped
\* items (tools._search_with: map_items(await catalog_search(...))) or an
\* exception
LookupOutcomes(tool_name) ==
  { [kind |-> "raise", items |-> << >>] }
  \cup { [kind |-> "items", items |-> map_items(raw, None)] :
            raw \in CatalogResponses(DictGet(tool_map, tool_name)) }

\* --------------------------------------------- conversation_agent.apply_plan
\* getattr(session, name) succeeds
HasAttr(name) == name \in SessionStateFields

\* take_first, were it to skip an item the slot already shows
take_first_unseen(session, slot, items) ==
  LET fresh == { i \in 1..Len(items) :
                   ~(/\ DictHas(session.current_outfit, slot)
                     /\ DictGet(session.current_outfit, slot) = items[i].assetId) }
      pick == IF fresh = {} THEN 1 ELSE CHOOSE i \in fresh : \A j \in fresh : i <= j
  IN [session EXCEPT !.current_outfit = DictSet(@, slot, items[pick].assetId)]

\* session.current_outfit.items[slot] = items[0]["assetId"]
take_first(session, slot, items) ==
  [session EXCEPT !.current_outfit = DictSet(@, slot, items[1].assetId)]

\* session.last_index_by_slot[slot] = 0
reset_index(session, slot) ==
  [session EXCEPT !.last_index_by_slot = DictSet(@, slot, 0)]

\* session.last_params_by_slot[slot] = params
store_params(session, slot, params) ==
  [session EXCEPT !.last_params_by_slot = DictSet(@, slot, params)]

\* the show_more branch: advance the rotation index and select that item
rotate(session, slot, items) ==
  LET current_index == DictGet(session.last_index_by_slot, slot)
      next_index == (current_index + 1) % Len(items)
  IN [session EXCEPT
        !.current_outfit = DictSet(@, slot, items[next_index + 1].assetId),
        !.last_index_by_slot = DictSet(@, slot, next_index)]

\* no_items, were an empty lookup to clear the slot
no_items_clears(session, slot) ==
  [session EXCEPT !.current_outfit = SelectSeq(@, LAMBDA e : e.k # slot)]

\* no_items, were an empty lookup to fill the slot with a placeholder asset
no_items_defaults(session, slot) ==
  [session EXCEPT !.current_outfit = DictSet(@, slot, "0")]

\* the branch taken when the lookup returned no items: a warning is logged
no_items(session, slot) == session

\* try_body, were a step to store its params and leave the asset that an
\* earlier step selected
try_body_params_only(session, slot, params, action, items) ==
  IF Len(items) = 0 THEN session ELSE store_params(session, slot, params)

\* the session after the try block of one step whose lookup returned items.
\* Reading session.last_index_by_slot raises AttributeError unless SessionState
\* has the field; the except clause of the step catches it and the writes made
\* before it stay.
try_body(session, slot, params, action, items) ==
  IF Len(items) = 0 THEN no_items(session, slot)
  ELSE IF action = "show_more"
  THEN IF ~HasAttr("last_index_by_slot") THEN session
       ELSE IF DictHas(session.last_index_by_slot, slot) /\ Len(items) > 1
       THEN store_params(rotate(session, slot, items), slot, params)
       ELSE store_params(reset_index(take_first(session, slot, items), slot),
                         slot, params)
  ELSE IF ~HasAttr("last_index_by_slot") THEN take_first(session, slot, items)
       ELSE store_params(reset_index(take_first(session, slot, items), slot),
                         slot, params)

\* ------------------------------------------------------------------- state
VARIABLES
  USER_SESSIONS,  \* memory.USER_SESSIONS: user id -> SessionState
  calls,          \* the apply_plan invocations, by task
  result,         \* the dict the latest run_conversation_agent returned
  turns,          \* run_conversation_agent turns made so far
  ncalls,         \* apply_plan invocations made so far
  lastStep,       \* history: the step the latest invocation executed last
  prevStep,       \* history: the step it executed before lastStep
  lastCall,       \* history: the latest invocation, once it has returned
  returned,       \* history: <<user, slot, assetId>> of every item a lookup
                  \*          of a step for that slot returned
  run,            \* history: the run of consecutive show_more steps of the
                  \*          latest invocation on one filled slot with one pool
  planned,        \* the latest plan_tools call: its arguments and its plan
  search,         \* the latest lookup (_search_with): request, attempts, result
  chat,           \* the latest call of a chat entry point: stage and response
  helper          \* the latest call of a pure helper: its name, input and output

vars ==
  <<USER_SESSIONS, calls, result, turns, ncalls, lastStep, prevStep, lastCall,
    returned, run, planned, search, chat, helper>>

\* the user ids of the turns
Users == {1, 2}

\* the user whose plans Spec executes (chat_cli.py sends one user id)
PlanUsers == {1}

\* the values of apply_plan's action argument
Actions == {"new_outfit", "replace", "show_more"}

\* one plan step
Step(slot, tool, params) == [slot |-> slot, tool |-> tool, params |-> params]

\* the <<plan, action>> arguments of the apply_plan invocations: the
\* new-outfit plan and the replacement plan plan_tools makes, one slot looked
\* up twice under each action, and plans whose first step names a tool
\* apply_plan does not know
PlanInputs ==
  LET twice(pa) ==
        << Step("Head", "search_hats", pa), Step("Head", "search_hats", pa) >>
      unknown(pa, pb) ==
        << Step("Head", "search_capes", pa), Step("Shirt", "search_shirts", pb) >>
      inputs(pa, pb) ==
        { <<plan_tools("casual outfit", None), "new_outfit">>,
          <<plan_tools("change my hat", "Head"), "replace">> }
        \cup { <<unknown(pa, pb), a>> : a \in {"new_outfit", "show_more"} }
        \cup { <<twice(pa), a>> : a \in Actions }
  IN inputs(base_params("knight helmet"), base_params("casual outfit under 50"))

IdleCall ==
  [status |-> "idle", user |-> 0, plan |-> << >>, action |-> "", pos |-> 0,
   all_items |-> << >>, start |-> SessionState, outcomes |-> << >>]

NoResult ==
  [user |-> 0, prompt |-> "", action |-> "", reply |-> "", has_plan |-> FALSE,
   plan |-> << >>, outfit |-> << >>, before |-> << >>]

NoStep ==
  [user |-> 0, slot |-> "", tool |-> "", params |-> base_params(""),
   action |-> "", kind |-> "none", items |-> << >>, before |-> SessionState]

NoCall ==
  [user |-> 0, plan |-> << >>, action |-> "", outcomes |-> << >>,
   start |-> SessionState, done |-> FALSE]

NoRun ==
  [user |-> 0, slot |-> "", pool |-> << >>, n |-> 0, start_asset |-> "",
   start_index |-> NoInt]

NoPlan == [called |-> FALSE, user_text |-> "", target_slot |-> None, plan |-> << >>]

NoCase ==
  [kind |-> "", pre |-> "", word |-> "", over |-> "", gap |-> "", n |-> 0,
   a |-> 0, sep |-> "", b |-> 0, post |-> ""]

NoHelper ==
  [fn |-> "", text |-> "", case |-> NoCase,
   price |-> [MinPrice |-> NoInt, MaxPrice |-> NoInt], id |-> NoInt,
   candidates |-> << >>, n |-> 0, ranked |-> << >>]

NoChat ==
  [entry |-> "", stage |-> "idle", user_id |-> 0, raised_in |-> "",
   items |-> << >>, success |-> FALSE, reply |-> "", outfit |-> << >>]

NoSearch ==
  [status |-> "idle", path |-> "", limit_arg |-> NoInt, params |-> << >>,
   attempts |-> 0, raw |-> << >>, items |-> << >>]

Init ==
  /\ USER_SESSIONS = << >>
  /\ calls = [c \in {"t1"} |-> IdleCall]
  /\ result = NoResult
  /\ turns = 0
  /\ ncalls = 0
  /\ lastStep = NoStep
  /\ prevStep = NoStep
  /\ lastCall = NoCall
  /\ returned = {}
  /\ run = NoRun
  /\ planned = NoPlan
  /\ search = NoSearch
  /\ chat = NoChat
  /\ helper = NoHelper

\* session.current_outfit.items.get(slot), None for an empty slot
AssetOf(session, slot) ==
  IF DictHas(session.current_outfit, slot)
  THEN DictGet(session.current_outfit, slot) ELSE None

\* session.last_index_by_slot.get(slot), NoInt when nothing is stored
IndexOf(session, slot) ==
  IF DictHas(session.last_index_by_slot, slot)
  THEN DictGet(session.last_index_by_slot, slot) ELSE NoInt

\* slot in session.last_params_by_slot
HasParams(session, slot) == DictHas(session.last_params_by_slot, slot)

\* one turn: run_conversation_agent(prompt, user_id)
RunConversationAgent(u, prompt) ==
  /\ turns < MaxTurns
  /\ turns' = turns + 1
  /\ USER_SESSIONS' = get_session(USER_SESSIONS, u)
  /\ result' = [user |-> u, prompt |-> prompt,
                before |-> IF u \in DOMAIN USER_SESSIONS
                           THEN <<USER_SESSIONS[u]>> ELSE << >>]
                @@ run_conversation_agent(prompt, USER_SESSIONS'[u])
  /\ UNCHANGED <<helper, calls, ncalls, lastStep, prevStep, lastCall, returned, run,
                 planned, search, chat>>

\* apply_plan(get_session(u), plan, action) is called: lines 69-109
ApplyPlanCall(c, u, plan, action) ==
  /\ calls[c].status = "idle"
  /\ ncalls < MaxCalls
  /\ ncalls' = ncalls + 1
  /\ USER_SESSIONS' = get_session(USER_SESSIONS, u)
  /\ calls' = [calls EXCEPT ![c] =
        [status |-> "running", user |-> u, plan |-> plan, action |-> action,
         pos |-> 1, all_items |-> << >>, start |-> USER_SESSIONS'[u],
         outcomes |-> << >>]]
  /\ lastStep' = NoStep
  /\ prevStep' = NoStep
  /\ lastCall' = NoCall
  /\ run' = NoRun
  /\ UNCHANGED <<helper, result, turns, returned, planned, search, chat>>

\* the history of one executed step
StepHistory(call, step, kind, items) ==
  LET before == USER_SESSIONS[call.user]
      rotating == /\ call.action = "show_more"
                  /\ kind = "items"
                  /\ Len(items) > 1
                  /\ DictHas(before.current_outfit, step.slot)
  IN /\ lastStep' = [user |-> call.user, slot |-> step.slot, tool |-> step.tool,
                      params |-> step.params, action |-> call.action,
                      kind |-> kind, items |-> items, before |-> before]
     /\ prevStep' = [lastStep EXCEPT !.before = SessionState]
     /\ returned' = returned \cup
           { <<call.user, step.slot, items[i].assetId>> : i \in 1..Len(items) }
     /\ run' = IF ~rotating THEN NoRun
               ELSE IF /\ run.n > 0
                       /\ run.user = call.user
                       /\ run.slot = step.slot
                       /\ run.pool = items
                    THEN [run EXCEPT !.n = @ + 1]
                    ELSE [user |-> call.user, slot |-> step.slot, pool |-> items,
                          n |-> 1, start_asset |-> AssetOf(before, step.slot),
                          start_index |-> IndexOf(before, step.slot)]

\* one iteration of the loop of apply_plan: lines 111-147
ApplyPlanStep(c) ==
  /\ calls[c].status = "running"
  /\ calls[c].pos <= Len(calls[c].plan)
  /\ LET call == calls[c]
         step == call.plan[call.pos]
         session == USER_SESSIONS[call.user]
     IN IF DictHas(tool_map, step.tool)
        THEN \E out \in LookupOutcomes(step.tool) :
               /\ USER_SESSIONS' = [USER_SESSIONS EXCEPT ![call.user] =
                     IF out.kind = "raise" THEN session
                     ELSE try_body(session, step.slot, step.params, call.action,
                                   out.items)]
               /\ calls' = [calls EXCEPT
                     ![c].pos = @ + 1,
                     ![c].all_items = @ \o out.items,
                     ![c].outcomes = Append(@, [kind |-> out.kind,
                                                found |-> Len(out.items) > 0,
                                                items |-> out.items])]
               /\ StepHistory(call, step, out.kind, out.items)
        ELSE /\ calls' = [calls EXCEPT
                   ![c].pos = @ + 1,
                   ![c].outcomes = Append(@, [kind |-> "unknown_tool", found |-> FALSE,
                                              items |-> << >>])]
             /\ StepHistory(call, step, "unknown_tool", << >>)
             /\ UNCHANGED USER_SESSIONS
  /\ UNCHANGED <<helper, result, turns, ncalls, lastCall, planned, search, chat>>

\* apply_plan returns all_items: lines 149-150
ApplyPlanReturn(c) ==
  /\ calls[c].status = "running"
  /\ calls[c].pos > Len(calls[c].plan)
  /\ lastCall' = [user |-> calls[c].user, plan |-> calls[c].plan,
                  action |-> calls[c].action, outcomes |-> calls[c].outcomes,
                  start |-> calls[c].start, done |-> TRUE]
  /\ calls' = [calls EXCEPT ![c] = IdleCall]
  /\ UNCHANGED <<helper, USER_SESSIONS, result, turns, ncalls, lastStep, prevStep,
                 returned, run, planned, search, chat>>

Next ==
  \/ \E c \in DOMAIN calls, u \in PlanUsers, pa \in PlanInputs :
        ApplyPlanCall(c, u, pa[1], pa[2])
  \/ \E c \in DOMAIN calls : ApplyPlanStep(c)
  \/ \E c \in DOMAIN calls : ApplyPlanReturn(c)

Spec == Init /\ [][Next]_vars

\* --------------------------------------------------- the turns on their own
\* the prompts of the turns
Prompts ==
  {"hi", "Hello", "hi more", "new shirt", "this hat", "Hello there, friend",
   "change my hat", "different hat", "swap to another cape", "new look",
   "swap pants", "replace face", "change the necklace",
   "more", "  More  ", "more hats", "another top", "show me other pants",
   "more hair for my face", "more wings", "more necks",
   "casual outfit", "knight armor under 500", "something random", ""}

\* most slots with stored params in a session a turn starts from
MaxStored == 2

\* the params stored for a slot in the sessions the turns start from
StoredParams(slot) ==
  CASE slot = "Head" -> base_params("knight helmet")
    [] slot = "Shirt" -> base_params("casual outfit under 50")
    [] OTHER -> base_params("fantasy wings 10-20")

\* the last_params_by_slot dicts of those sessions: up to MaxStored distinct
\* slots, in every insertion order
ParamDicts ==
  LET slots == {"Head", "Shirt", "Back Accessory"}
      orders == UNION { {f \in [1..n -> slots] :
                           \A i, j \in 1..n : i # j => f[i] # f[j]} :
                        n \in 0..MaxStored }
  IN { [i \in 1..Len(f) |-> [k |-> f[i], v |-> StoredParams(f[i])]] : f \in orders }

\* the SessionState values the turns start from
SessionInputs ==
  { [current_outfit |-> o, last_params_by_slot |-> d, last_index_by_slot |-> << >>] :
      o \in { << >>, << [k |-> "Head", v |-> "901"] >> }, d \in ParamDicts }

\* the USER_SESSIONS tables the turns start from
SessionTables ==
  { << >> }
  \cup UNION { { (1 :> s), (1 :> s) @@ (2 :> SessionState) } : s \in SessionInputs }

InitTurn ==
  /\ USER_SESSIONS \in SessionTables
  /\ calls = [c \in {"t1"} |-> IdleCall]
  /\ result = NoResult
  /\ turns = 0
  /\ ncalls = 0
  /\ lastStep = NoStep
  /\ prevStep = NoStep
  /\ lastCall = NoCall
  /\ returned = {}
  /\ run = NoRun
  /\ planned = NoPlan
  /\ search = NoSearch
  /\ chat = NoChat
  /\ helper = NoHelper

NextTurn == \E u \in Users, prompt \in Prompts : RunConversationAgent(u, prompt)

SpecTurn == InitTurn /\ [][NextTurn]_vars

\* ------------------------------------------------ plan_tools on its own
\* the texts plan_tools is applied to
PlanTexts ==
  Prompts \cup {"ninja stealth gear", "fancy formal dress", "dark knight armor",
                "Simple everyday look over 100", "fancy ninja",
                "elegant casual wear", "medieval castle guard", "Warrior"}

\* the target slots plan_tools is applied to: none, or a slot of SLOT_TOOL_MAP
TargetSlots == {None, ""} \cup { SLOT_TOOL_MAP[i].k : i \in 1..Len(SLOT_TOOL_MAP) }

\* one call plan_tools(user_text, target_slot); plan_tools reads and writes
\* no state, so a behaviour makes one call
PlanTools(user_text, target_slot) ==
  /\ ~planned.called
  /\ planned' = [called |-> TRUE, user_text |-> user_text,
                  target_slot |-> target_slot,
                  plan |-> plan_tools(user_text, target_slot)]
  /\ UNCHANGED <<helper, USER_SESSIONS, calls, result, turns, ncalls, lastStep, prevStep,
                 lastCall, returned, run, search, chat>>

NextPlan ==
  \E user_text \in PlanTexts, target_slot \in TargetSlots :
    PlanTools(user_text, target_slot)

SpecPlan == Init /\ [][NextPlan]_vars

\* ------------------------------------------- apply_plan in concurrent tasks
\* the asyncio tasks that run apply_plan side by side
Tasks == {"t1", "t2"}

\* the <<plan, action>> arguments of the concurrent invocations: the first
\* two steps of a new-outfit plan, and a replacement plan
RaceInputs ==
  { <<Take(plan_tools("casual outfit", None), 2), "new_outfit">>,
    <<plan_tools("change my hat", "Head"), "replace">> }

InitRace ==
  /\ USER_SESSIONS = << >>
  /\ calls = [c \in Tasks |-> IdleCall]
  /\ result = NoResult
  /\ turns = 0
  /\ ncalls = 0
  /\ lastStep = NoStep
  /\ prevStep = NoStep
  /\ lastCall = NoCall
  /\ returned = {}
  /\ run = NoRun
  /\ planned = NoPlan
  /\ search = NoSearch
  /\ chat = NoChat
  /\ helper = NoHelper

\* every task makes one invocation and runs between the awaits of the
\* others: one step of one task at a time
NextRace ==
  \/ \E c \in Tasks, u \in Users, pa \in RaceInputs :
        /\ ncalls < Cardinality(Tasks)
        /\ ApplyPlanCall(c, u, pa[1], pa[2])
  \/ \E c \in Tasks : ApplyPlanStep(c)
  \/ \E c \in Tasks : ApplyPlanReturn(c)

SpecRace == InitRace /\ [][NextRace]_vars

\* ------------------------------------------------- one lookup on its own
\* most records of one raw catalog response
MaxRaw == 12
\* most records without an id in one raw catalog response
MaxNull == 2

\* request attempts of catalog_search and of roblox_search
RETRIES == 3

\* the "Limit" _search_with puts into every request
SearchLimit == 10

\* roblox_tools.LIMIT
LIMIT == 10

\* roblox_catalog_tool.map_items(raw): the same loop and cap, the type taken
\* from itemType or assetType
map_items_tool(raw) ==
  Take([i \in 1..Len(SelectSeq(raw, LAMBDA it : it.id # NoInt)) |->
          [assetId |-> IntStr(SelectSeq(raw, LAMBDA it : it.id # NoInt)[i].id),
           type |-> "Unknown"]], ItemCap)

\* the mapping loop of make_roblox_api_call: the first LIMIT records, a
\* missing id mapped to the empty string
api_call_items(raw) ==
  [i \in 1..Len(Take(raw, LIMIT)) |->
     [assetId |-> IF raw[i].id = NoInt THEN "" ELSE IntStr(raw[i].id),
      type |-> "Unknown"]]

\* the lookup paths: tools._search_with (catalog_search, then map_items),
\* roblox_catalog_tool.roblox_search and roblox_tools.make_roblox_api_call
LookupPaths == {"_search_with", "roblox_search", "make_roblox_api_call"}

\* the limit values a caller supplies; NoInt when it supplies none
LimitArgs == {NoInt, 5, 10, 12, 30}

\* the "Limit" of the request a path builds from the caller's limit
RequestLimit(path, limit_arg) ==
  CASE path = "_search_with" -> SearchLimit
    [] path = "make_roblox_api_call" -> LIMIT
    [] path = "roblox_search" -> IF limit_arg = NoInt THEN 10 ELSE limit_arg

\* the i-th record of a raw response: ids count from 0, the subcategory is
\* a mapped one, an unmapped one or absent
ResponseRecord(i, has_id) ==
  [id |-> IF has_id THEN i - 1 ELSE NoInt,
   subcategory |-> CASE i % 3 = 0 -> 9 [] i % 3 = 1 -> 999 [] OTHER -> NoInt,
   subCategory |-> IF i % 3 = 2 THEN 14 ELSE NoInt]

\* the raw "data" lists of a response: up to MaxRaw records, of which up to
\* MaxNull carry no id
RawResponses ==
  UNION { { [i \in 1..n |-> ResponseRecord(i, i \notin nulls)] :
              nulls \in { ns \in SUBSET (1..n) : Cardinality(ns) <= MaxNull } } :
          n \in 0..MaxRaw }

\* a lookup starts: the path builds its request; with DEV_MODE catalog_search
\* answers from MOCK_DATA and sends nothing
SearchCall(path, limit_arg, dev_mode) ==
  /\ search.status = "idle"
  /\ path = "_search_with" => limit_arg = NoInt
  /\ dev_mode => path = "_search_with"
  /\ \E n \in 0..MaxPool :
       search' = [status |-> IF dev_mode THEN "mapping" ELSE "requesting",
                  path |-> path, limit_arg |-> limit_arg,
                  params |-> [Limit |-> RequestLimit(path, limit_arg),
                              Subcategory |-> 9],
                  attempts |-> 0,
                  raw |-> IF dev_mode THEN FirstRecords(9, n) ELSE << >>,
                  items |-> << >>]
  /\ UNCHANGED <<helper, USER_SESSIONS, calls, result, turns, ncalls, lastStep, prevStep,
                 lastCall, returned, run, planned, chat>>

\* the attempts a path makes at most
MaxAttempts(path) == IF path = "make_roblox_api_call" THEN 1 ELSE RETRIES

\* an attempt is answered with status 200 and a body that parses
AttemptAnswered(raw) ==
  /\ search.status = "requesting"
  /\ search.attempts < MaxAttempts(search.path)
  /\ search' = IF search.path = "make_roblox_api_call"
                THEN [search EXCEPT !.attempts = @ + 1, !.raw = raw,
                                    !.items = api_call_items(raw),
                                    !.status = "done"]
                ELSE [search EXCEPT !.attempts = @ + 1, !.raw = raw,
                                    !.status = "mapping"]
  /\ UNCHANGED <<helper, USER_SESSIONS, calls, result, turns, ncalls, lastStep, prevStep,
                 lastCall, returned, run, planned, chat>>

\* an attempt fails: a status other than 200, an httpx.RequestError (a
\* timeout is one), or a status 200 whose body r.json() cannot parse
AttemptFails(fault) ==
  /\ search.status = "requesting"
  /\ search.attempts < MaxAttempts(search.path)
  /\ search' =
       CASE search.path = "make_roblox_api_call"
              -> [search EXCEPT !.attempts = @ + 1, !.status = "done"]
         [] search.path = "_search_with"
              -> [search EXCEPT !.attempts = @ + 1,
                    !.status = IF fault = "bad_body" THEN "raised" ELSE @]
         [] search.path = "roblox_search"
              -> [search EXCEPT !.attempts = @ + 1,
                    !.status = IF fault = "status" THEN @ ELSE "raised"]
  /\ UNCHANGED <<helper, USER_SESSIONS, calls, result, turns, ncalls, lastStep, prevStep,
                 lastCall, returned, run, planned, chat>>

\* the attempts are used up: the search returns []
AttemptsExhausted ==
  /\ search.status = "requesting"
  /\ search.attempts = MaxAttempts(search.path)
  /\ search' = [search EXCEPT !.status = "mapping", !.raw = << >>]
  /\ UNCHANGED <<helper, USER_SESSIONS, calls, result, turns, ncalls, lastStep, prevStep,
                 lastCall, returned, run, planned, chat>>

\* the raw list is mapped: map_items of the path's module
MapItems ==
  /\ search.status = "mapping"
  /\ search' = [search EXCEPT
        !.status = "done",
        !.items = IF search.path = "_search_with" THEN map_items(search.raw, None)
                  ELSE map_items_tool(search.raw)]
  /\ UNCHANGED <<helper, USER_SESSIONS, calls, result, turns, ncalls, lastStep, prevStep,
                 lastCall, returned, run, planned, chat>>

NextLookup ==
  \/ \E path \in LookupPaths, limit_arg \in LimitArgs, dev_mode \in BOOLEAN :
        SearchCall(path, limit_arg, dev_mode)
  \/ \E raw \in RawResponses : AttemptAnswered(raw)
  \/ \E fault \in {"status", "request_error", "bad_body"} : AttemptFails(fault)
  \/ AttemptsExhausted
  \/ MapItems

SpecLookup == Init /\ [][NextLookup]_vars

\* --------------------------------------------------- the chat entry points
\* the entry points of a turn: orchestrator.chat and the /chat endpoint of
\* server.main
ChatEntries == {"orchestrator.chat", "server.chat"}

\* the stages of the try body of orchestrator.chat, in order
ChatStages == <<"intent", "lookup", "mapping", "ranking">>

\* the reply of the except clause of orchestrator.chat
Apology == "I'm sorry, I had trouble processing your request. Could you try again?"

\* the reply of orchestrator.chat when a stage found no items
NothingFound == "Sorry, I couldn't find items right now. Please try again later."

\* the number of items orchestrator.chat asks the ranker for
RankTarget == 8

\* LightRanker.run, were it to keep the candidates in the order given
LightRankerRun_in_order(candidates, n) ==
  Take(candidates, IF n < 10 THEN n ELSE 10)

\* LightRanker.run(candidates, n): the first item of every type in order of
\* first appearance, then the other items type by type, at most min(n, 10)
LightRankerRun(candidates, n) ==
  LET first(i) == \A j \in 1..(i - 1) : candidates[j].type # candidates[i].type
      firsts == SelectSeq([i \in 1..Len(candidates) |-> i], first)
      rest(t) == SelectSeq([i \in 1..Len(candidates) |-> i],
                           LAMBDA i : candidates[i].type = t /\ ~first(i))
      others[k \in 0..Len(firsts)] ==
        IF k = 0 THEN << >>
        ELSE others[k - 1] \o rest(candidates[firsts[k]].type)
      order == firsts \o others[Len(firsts)]
  IN [k \in 1..Len(Take(order, IF n < 10 THEN n ELSE 10)) |-> candidates[order[k]]]

\* an entry point is called
ChatCall(entry, user_id) ==
  /\ chat.stage = "idle"
  /\ chat' = [NoChat EXCEPT !.entry = entry, !.user_id = user_id,
                            !.stage = IF entry = "orchestrator.chat"
                                      THEN ChatStages[1] ELSE "placeholder"]
  /\ UNCHANGED <<helper, USER_SESSIONS, calls, result, turns, ncalls, lastStep, prevStep,
                 lastCall, returned, run, planned, search>>

\* step 1 of orchestrator.chat: the keyword spec is extracted
ChatIntent ==
  /\ chat.entry = "orchestrator.chat"
  /\ chat.stage = "intent"
  /\ chat' = [chat EXCEPT !.stage = "lookup"]
  /\ UNCHANGED <<helper, USER_SESSIONS, calls, result, turns, ncalls, lastStep, prevStep,
                 lastCall, returned, run, planned, search>>

\* the early return of orchestrator.chat when a stage has nothing
NothingFoundOut(c) ==
  [c EXCEPT !.stage = "returned", !.success = FALSE, !.reply = NothingFound,
            !.outfit = << >>]

\* step 2 of orchestrator.chat: the catalog search answers with raw
ChatLookup(raw) ==
  /\ chat.entry = "orchestrator.chat"
  /\ chat.stage = "lookup"
  /\ chat' = IF Len(raw) = 0 THEN NothingFoundOut(chat)
              ELSE [chat EXCEPT !.stage = "mapping", !.items = raw]
  /\ UNCHANGED <<helper, USER_SESSIONS, calls, result, turns, ncalls, lastStep, prevStep,
                 lastCall, returned, run, planned, search>>

\* step 3 of orchestrator.chat: map_items(raw_items)
ChatMapping ==
  /\ chat.entry = "orchestrator.chat"
  /\ chat.stage = "mapping"
  /\ chat' = IF Len(map_items(chat.items, None)) = 0 THEN NothingFoundOut(chat)
              ELSE [chat EXCEPT !.stage = "ranking",
                                !.items = map_items(chat.items, None)]
  /\ UNCHANGED <<helper, USER_SESSIONS, calls, result, turns, ncalls, lastStep, prevStep,
                 lastCall, returned, run, planned, search>>

\* steps 4 and 5 of orchestrator.chat: the ranked items are returned
ChatRanking ==
  /\ chat.entry = "orchestrator.chat"
  /\ chat.stage = "ranking"
  /\ chat' = [chat EXCEPT !.stage = "returned", !.success = TRUE,
                          !.reply = "Your outfit is ready!",
                          !.outfit = LightRankerRun(chat.items, RankTarget)]
  /\ UNCHANGED <<helper, USER_SESSIONS, calls, result, turns, ncalls, lastStep, prevStep,
                 lastCall, returned, run, planned, search>>

\* a stage of orchestrator.chat raises an Exception: the except clause
\* returns the apology
ChatStageRaises ==
  /\ chat.entry = "orchestrator.chat"
  /\ \E n \in 1..Len(ChatStages) : chat.stage = ChatStages[n]
  /\ chat' = [chat EXCEPT !.stage = "returned", !.raised_in = chat.stage,
                          !.success = FALSE, !.reply = Apology, !.outfit = << >>]
  /\ UNCHANGED <<helper, USER_SESSIONS, calls, result, turns, ncalls, lastStep, prevStep,
                 lastCall, returned, run, planned, search>>

\* the try body of the /chat endpoint raises (ChatOut is built without its
\* required outfit field): the except clause raises HTTPException(500)
ServerChatRaises ==
  /\ chat.entry = "server.chat"
  /\ chat.stage = "placeholder"
  /\ chat' = [chat EXCEPT !.stage = "raised", !.raised_in = "placeholder"]
  /\ UNCHANGED <<helper, USER_SESSIONS, calls, result, turns, ncalls, lastStep, prevStep,
                 lastCall, returned, run, planned, search>>

\* the response is delivered and the entry point can be called again
ChatEnds ==
  /\ chat.stage \in {"returned", "raised"}
  /\ chat' = NoChat
  /\ UNCHANGED <<helper, USER_SESSIONS, calls, result, turns, ncalls, lastStep, prevStep,
                 lastCall, returned, run, planned, search>>

NextChat ==
  \/ \E entry \in ChatEntries, user_id \in Users : ChatCall(entry, user_id)
  \/ ChatIntent
  \/ \E raw \in RawResponses : ChatLookup(raw)
  \/ ChatMapping
  \/ ChatRanking
  \/ ChatStageRaises
  \/ ServerChatRaises
  \/ ChatEnds

SpecChat == Init /\ [][NextChat]_vars

\* ------------------------------------------------------------- properties
\* what a session holds for one slot: outfit entry, stored params, index
SlotView(session, slot) ==
  [asset |-> AssetOf(session, slot),
   has_params |-> HasParams(session, slot),
   params |-> IF HasParams(session, slot)
              THEN DictGet(session.last_params_by_slot, slot) ELSE base_params(""),
   index |-> IndexOf(session, slot)]

\* the session of the user of the step executed last, as it is now
StepSession == USER_SESSIONS[lastStep.user]

\* C1: after a new_outfit or replace step whose lookup returned items, the
\* slot holds the first item's assetId, the step's params and index 0.
C1_FirstItemStored ==
  (/\ lastStep.kind = "items"
   /\ lastStep.action \in {"new_outfit", "replace"}
   /\ Len(lastStep.items) > 0)
  => SlotView(StepSession, lastStep.slot) =
       [asset |-> lastStep.items[1].assetId, has_params |-> TRUE,
        params |-> lastStep.params, index |-> 0]

\* C2: a step whose lookup returned no items leaves the slot's outfit entry,
\* stored params and rotation index as they were, under every action.
C2_EmptyLookupKeepsSlot ==
  (lastStep.kind = "items" /\ Len(lastStep.items) = 0)
  => SlotView(StepSession, lastStep.slot) = SlotView(lastStep.before, lastStep.slot)

\* a filled slot went through a step whose lookup returned nothing
C2_Witness ==
  /\ lastStep.kind = "items"
  /\ Len(lastStep.items) = 0
  /\ AssetOf(lastStep.before, lastStep.slot) # None
  /\ AssetOf(StepSession, lastStep.slot) # None

\* C3: a show_more step on a filled slot whose lookup returned more than one
\* item moves the index to (previous + 1) mod len(items) and selects the item
\* at that index.
C3_ShowMoreAdvances ==
  (/\ lastStep.kind = "items"
   /\ lastStep.action = "show_more"
   /\ Len(lastStep.items) > 1
   /\ AssetOf(lastStep.before, lastStep.slot) # None)
  => LET previous == IF IndexOf(lastStep.before, lastStep.slot) = NoInt THEN 0
                     ELSE IndexOf(lastStep.before, lastStep.slot)
         next == (previous + 1) % Len(lastStep.items)
     IN /\ IndexOf(StepSession, lastStep.slot) = next
        /\ AssetOf(StepSession, lastStep.slot) = lastStep.items[next + 1].assetId

\* C4: in a run of show_more steps on a filled slot with a constant pool of
\* k > 1 items, the index and the selected asset are back at their starting
\* values after k steps and not after fewer.
C4_RotationLaw ==
  run.n > 0
  => LET k == Len(run.pool)
         now == SlotView(USER_SESSIONS[run.user], run.slot)
         back == now.index = run.start_index /\ now.asset = run.start_asset
     IN /\ run.n = k => back
        /\ run.n < k => ~back

\* the two steps executed last applied the same replace to the same slot
ReplacedTwice ==
  /\ prevStep.kind = "items"
  /\ lastStep.kind = "items"
  /\ prevStep.action = "replace"
  /\ lastStep.action = "replace"
  /\ prevStep.user = lastStep.user
  /\ prevStep.slot = lastStep.slot
  /\ prevStep.items = lastStep.items
  /\ prevStep.params = lastStep.params

\* C5: a replace step repeated with the same items and params leaves the
\* slot's selection as the first application left it.
C5_ReplaceIdempotent ==
  ReplacedTwice
  => SlotView(StepSession, lastStep.slot) = SlotView(lastStep.before, lastStep.slot)

\* a replace that found several items was applied twice in a row
C5_Witness ==
  /\ ReplacedTwice
  /\ Len(lastStep.items) > 1
  /\ AssetOf(StepSession, lastStep.slot) = lastStep.items[1].assetId

\* the steps of the returned invocation that were for slot
StepsFor(slot) ==
  { i \in 1..Len(lastCall.plan) : lastCall.plan[i].slot = slot }

C7_AssetsComeFromLookups ==
  \A u \in DOMAIN USER_SESSIONS :
    \A i \in 1..Len(USER_SESSIONS[u].current_outfit) :
      <<u, USER_SESSIONS[u].current_outfit[i].k,
           USER_SESSIONS[u].current_outfit[i].v>> \in returned

\* an outfit with two filled slots, after a step that found nothing
C7_Witness ==
  \E u \in DOMAIN USER_SESSIONS :
    /\ Len(USER_SESSIONS[u].current_outfit) >= 2
    /\ lastStep.user = u
    /\ lastStep.kind = "items"
    /\ Len(lastStep.items) = 0

\* the prompt of the latest turn, as the rules read it
TurnText == Strip(Lower(result.prompt))

\* the session the latest turn was given
TurnSession ==
  IF Len(result.before) = 1 THEN result.before[1] ELSE SessionState

\* the replace rule: a replacement word and a slot keyword occur in the text
ReplaceRule(text) ==
  /\ \E w \in {"change", "replace", "swap", "different", "new"} : Contains(text, w)
  /\ \E i \in 1..Len(slot_keywords) : Contains(text, slot_keywords[i].k)

\* the show-more rule: a continuation word occurs in the text
MoreRule(text) ==
  \E w \in {"more", "another", "different", "other"} : Contains(text, w)

\* the rule that decides the latest turn: the first one that matches
DecidingRule ==
  IF IsGreeting(TurnText) THEN "greeting"
  ELSE IF ReplaceRule(TurnText) THEN "replace"
  ELSE IF MoreRule(TurnText) THEN "show_more"
  ELSE "new_outfit"

\* C8: the rules are tried in the order greeting, replace, show-more,
\* new-outfit and the first that matches alone decides the one action.
C8_FirstRuleDecides ==
  result.user # 0
  => /\ DecidingRule = "greeting" => result.action = "greet"
     /\ DecidingRule = "replace" => result.action = "replace"
     /\ DecidingRule = "show_more" => result.action \in {"show_more", "clarify"}
     /\ DecidingRule = "new_outfit" => result.action \in {"new_outfit", "clarify"}

\* a replace turn whose prompt also has a continuation word
C8_Witness ==
  /\ result.action = "replace"
  /\ MoreRule(TurnText)
  /\ HasParams(TurnSession, result.plan[1].slot)

\* C9: a greet turn leaves the user's session as it was and carries no plan.
C9_GreetChangesNothing ==
  result.action = "greet"
  => /\ ~result.has_plan
     /\ result.plan = << >>
     /\ USER_SESSIONS[result.user] = TurnSession

\* a greet turn of a user whose session has an outfit entry and stored params
C9_Witness ==
  /\ result.action = "greet"
  /\ Len(TurnSession.current_outfit) > 0
  /\ Len(TurnSession.last_params_by_slot) > 0

RECURSIVE SplitList(_, _)
\* the names of a ", "-separated list; cur is the name being read
SplitList(text, cur) ==
  IF Len(text) = 0 THEN <<cur>>
  ELSE IF StartsAt(text, 1, ", ")
       THEN <<cur>> \o SplitList(SubSeq(text, 3, Len(text)), "")
       ELSE SplitList(Tail(text), cur \o SubSeq(text, 1, 1))

\* the slots a clarify reply lists after its last colon
ListedSlots(reply) ==
  LET colon == CHOOSE i \in 1..Len(reply) :
                 /\ StartsAt(reply, i, ": ")
                 /\ \A j \in (i + 1)..Len(reply) : ~StartsAt(reply, j, ": ")
  IN SplitList(SubSeq(reply, colon + 2, Len(reply)), "")

\* C10: at the show-more rule, a resolved slot with stored params gives
\* show_more with one step for that slot carrying the stored params; anything
\* else gives clarify without a plan, listing exactly the slots with stored
\* params or saying that nothing has been suggested yet.
C10_ShowMoreOrClarify ==
  (result.user # 0 /\ DecidingRule = "show_more")
  => LET stored == TurnSession.last_params_by_slot
         hits == { i \in 1..Len(more_slot_keywords) :
                     Contains(TurnText, more_slot_keywords[i].k) }
         slot == more_slot_keywords[CHOOSE i \in hits : \A j \in hits : i <= j].v
     IN IF hits # {} /\ DictHas(stored, slot)
        THEN /\ result.action = "show_more"
             /\ result.has_plan
             /\ Len(result.plan) = 1
             /\ result.plan[1].slot = slot
             /\ result.plan[1].params = DictGet(stored, slot)
        ELSE /\ result.action = "clarify"
             /\ ~result.has_plan
             /\ IF Len(stored) = 0
                THEN Contains(result.reply, "haven't made any suggestions yet")
                ELSE /\ Len(ListedSlots(result.reply)) = Len(stored)
                     /\ \A i \in 1..Len(stored) :
                          \E n \in 1..Len(stored) :
                            ListedSlots(result.reply)[n] = Lower(stored[i].k)

\* a show_more turn for a slot that is not the first with stored params
C10_Witness ==
  /\ result.action = "show_more"
  /\ Len(TurnSession.last_params_by_slot) = 2
  /\ result.plan[1].slot = TurnSession.last_params_by_slot[2].k

\* the theme keywords of plan_tools: the style words of the accessory themes
ThemeWords ==
  {"knight", "medieval", "armor", "warrior", "ninja", "stealth", "dark",
   "casual", "everyday", "simple", "fancy", "formal", "elegant"}

\* the text has a slot keyword of either keyword table, or a theme or style
\* keyword
HasKeyword(text) ==
  \/ \E i \in 1..Len(slot_keywords) : Contains(text, slot_keywords[i].k)
  \/ \E i \in 1..Len(more_slot_keywords) : Contains(text, more_slot_keywords[i].k)
  \/ \E w \in ThemeWords : Contains(text, w)
  \/ \E i \in 1..Len(STYLE_TO_GENRE) : Contains(text, STYLE_TO_GENRE[i].k)

\* C11: a turn of a user without a session whose prompt has no slot keyword
\* and no theme keyword (and is no greeting) returns clarify without a plan
\* and leaves the session empty.
C11_NoKeywordClarifies ==
  (/\ result.user # 0
   /\ Len(result.before) = 0
   /\ ~IsGreeting(TurnText)
   /\ ~HasKeyword(TurnText))
  => /\ result.action = "clarify"
     /\ ~result.has_plan
     /\ result.plan = << >>
     /\ USER_SESSIONS[result.user] = SessionState

\* C12: a turn decided by the replace rule returns action replace with a plan
\* of exactly one step, for the slot of the first slot keyword in the text,
\* and a reply that names that slot; "change my hat" gives slot Head and a
\* reply with "head".
C12_ReplaceOneStep ==
  (result.user # 0 /\ DecidingRule = "replace")
  => LET hits == { i \in 1..Len(slot_keywords) :
                     Contains(Lower(result.prompt), slot_keywords[i].k) }
         target == slot_keywords[CHOOSE i \in hits : \A j \in hits : i <= j].v
     IN /\ result.action = "replace"
        /\ result.has_plan
        /\ Len(result.plan) = 1
        /\ result.plan[1].slot = target
        /\ Contains(result.reply, Lower(target))
        /\ result.prompt = "change my hat"
             => target = "Head" /\ Contains(result.reply, "head")

\* "change my hat" was answered for a user whose Head slot was filled
C12_Witness ==
  /\ result.prompt = "change my hat"
  /\ AssetOf(TurnSession, "Head") # None
  /\ result.action = "replace"
  /\ result.plan[1].slot = "Head"

\* the slots of the steps of a plan, in plan order
PlanSlots(plan) == [i \in 1..Len(plan) |-> plan[i].slot]

\* C13: a new-outfit plan has at most 5 steps, starts with Head, Shirt and
\* Pants in that order, has only other slots after them, and is a prefix of
\* the uncapped slot list: the cap drops trailing steps only.
C13_NewOutfitPlanShape ==
  (planned.called /\ planned.target_slot \in {None, ""})
  => LET slots == PlanSlots(planned.plan)
         uncapped == core_slots(Lower(planned.user_text))
     IN /\ Len(slots) <= 5
        /\ Len(slots) >= 3
        /\ SubSeq(slots, 1, 3) = <<"Head", "Shirt", "Pants">>
        /\ \A i \in 4..Len(slots) : slots[i] \notin {"Head", "Shirt", "Pants"}
        /\ Len(slots) <= Len(uncapped)
        /\ slots = SubSeq(uncapped, 1, Len(slots))
        /\ Len(uncapped) <= 5 => slots = uncapped

\* a new-outfit plan that fills the cap: the core pieces and two accessories
C13_Witness ==
  /\ planned.called
  /\ planned.target_slot = None
  /\ Len(planned.plan) = 5
  /\ planned.plan[5].slot = "Front Accessory"

\* the records of the latest raw list that carry an id, in input order
WithId == SelectSeq(search.raw, LAMBDA it : it.id # NoInt)

\* C14: map_items returns, in input order, one item for each of the first
\* 10 records that carry an id, its assetId the string form of the id, and
\* never more than 10 items.
C14_MapItemsFirstTenWithId ==
  (search.status = "done" /\ search.path \in {"_search_with", "roblox_search"})
  => /\ Len(search.items) <= 10
     /\ Len(search.items) = (IF Len(WithId) < 10 THEN Len(WithId) ELSE 10)
     /\ \A i \in 1..Len(search.items) :
          /\ Len(search.items[i].assetId) > 0
          /\ \A c \in 1..Len(search.items[i].assetId) :
                IsDigit(SubSeq(search.items[i].assetId, c, c))
          /\ StrInt(search.items[i].assetId) = WithId[i].id
          /\ search.items[i].assetId = IntStr(WithId[i].id)

\* a raw list of more than 10 records with ids, a record without an id
\* among the first 10, mapped to 10 items
C14_Witness ==
  /\ search.status = "done"
  /\ search.path = "_search_with"
  /\ Len(WithId) > 10
  /\ \E i \in 1..10 : search.raw[i].id = NoInt
  /\ Len(search.items) = 10
  /\ search.items[1].assetId = "0"

\* C15: every request a lookup path sends carries the limit 10, whatever
\* limit the caller supplied.
C15_LimitAlwaysTen ==
  search.attempts > 0 => search.params.Limit = 10

\* C16: catalog_search makes at most 3 attempts and ends by returning a
\* list, the data of the first attempt answered with status 200 or [] when
\* every attempt failed, whatever the fault; it never raises.
C16_SearchNeverRaises ==
  search.path = "_search_with"
  => /\ search.attempts <= 3
     /\ search.status # "raised"

\* C17: a turn entry point never raises; when a stage of the turn raised,
\* it returns success=false, an apologetic reply and an empty outfit.
C17_EntryPointNeverRaises ==
  /\ chat.stage # "raised"
  /\ (chat.stage = "returned" /\ chat.raised_in # "")
       => /\ ~chat.success
          /\ Contains(chat.reply, "sorry")
          /\ chat.outfit = << >>

RECURSIVE RunSteps(_, _, _)
\* the session after the steps i.. of an invocation, run without interruption
\* with the lookup results the invocation got
RunSteps(session, call, i) ==
  IF i > Len(call.plan) THEN session
  ELSE RunSteps(IF call.outcomes[i].kind = "items"
                THEN try_body(session, call.plan[i].slot, call.plan[i].params,
                              call.action, call.outcomes[i].items)
                ELSE session,
                call, i + 1)

\* the session after invocation first, then invocation second, one after
\* the other
Serial(session, first, second) ==
  RunSteps(RunSteps(session, first, 1), second, 1)

\* two invocations for one user that began on the same session have both
\* executed all their steps
RaceOver ==
  /\ \A c \in Tasks : /\ calls[c].status = "running"
                       /\ calls[c].pos > Len(calls[c].plan)
  /\ calls["t1"].user = calls["t2"].user
  /\ calls["t1"].start = calls["t2"].start

\* dict equality: the same keys with the same values, whatever the order
\* the keys were inserted in
SameDict(d, e) ==
  /\ \A i \in 1..Len(d) : DictHas(e, d[i].k) /\ DictGet(e, d[i].k) = d[i].v
  /\ \A i \in 1..Len(e) : DictHas(d, e[i].k)

\* two sessions with equal tables
SameSession(s, t) ==
  /\ SameDict(s.current_outfit, t.current_outfit)
  /\ SameDict(s.last_params_by_slot, t.last_params_by_slot)
  /\ SameDict(s.last_index_by_slot, t.last_index_by_slot)

\* C18: two plans executed concurrently for one user leave the session as
\* running the two plans one after the other, in one of the two orders,
\* leaves it.
C18_PlansSerialized ==
  RaceOver
  => \/ SameSession(USER_SESSIONS[calls["t1"].user],
                    Serial(calls["t1"].start, calls["t1"], calls["t2"]))
     \/ SameSession(USER_SESSIONS[calls["t1"].user],
                    Serial(calls["t1"].start, calls["t2"], calls["t1"]))

\* C19: no session is ever removed, a session is created empty, and a
\* session changes only in a step of an invocation for its own user.
C19_SessionsIndependent ==
  [][ /\ \A u \in DOMAIN USER_SESSIONS :
           /\ u \in DOMAIN USER_SESSIONS'
           /\ USER_SESSIONS'[u] # USER_SESSIONS[u]
                => \E c \in DOMAIN calls :
                     /\ calls[c].status = "running"
                     /\ calls[c].user = u
                     /\ calls'[c].pos = calls[c].pos + 1
      /\ \A u \in DOMAIN USER_SESSIONS' \ DOMAIN USER_SESSIONS :
           USER_SESSIONS'[u] = SessionState ]_vars

\* two invocations for different users are both under way and the two
\* users' outfits differ
C19_Witness ==
  /\ \A c \in Tasks : calls[c].status = "running" /\ calls[c].pos > 1
  /\ calls["t1"].user # calls["t2"].user
  /\ Len(USER_SESSIONS[calls["t1"].user].current_outfit) = 2
  /\ Len(USER_SESSIONS[calls["t2"].user].current_outfit) = 1

\* C20: the outfit a turn returns has one entry for each filled slot of the
\* user's session after the turn, with the slot's asset id, and nothing
\* else, listed in the order SLOT_TOOL_MAP declares the slots.
C20_OutfitIsProjection ==
  result.user # 0
  => LET session == USER_SESSIONS[result.user]
         filled == SelectSeq(SLOT_TOOL_MAP,
                             LAMBDA e : DictHas(session.current_outfit, e.k))
     IN result.outfit
          = [i \in 1..Len(filled) |->
               [assetId |-> DictGet(session.current_outfit, filled[i].k),
                type |-> filled[i].k]]

\* ------------------------------------------- param_helpers on their own
\* the words of parse_price's under pattern, as a user may capitalise them
UnderWords == {"under", "below", "less than", "Under"}

\* the words of parse_price's over pattern
OverWords == {"over", "above", "more than", "OVER"}

\* the separators of parse_price's range pattern, with the optional spaces
RangeSeps == {"-", " - ", "to", " to "}

\* the amounts the price phrases of the texts name
Amounts == {5, 50, 500}

\* the text before and after the price phrase
PriceBefore == {"", "red ninja outfit ", "Knight armor "}
PriceAfter == {"", " robux"}

\* the price phrases of the texts: none, one pattern alone, a range next
\* to an under or over phrase, an over phrase next to an under phrase
PriceCases ==
  LET case(kind, pre, word, over, gap, n, a, sep, b, post) ==
        [kind |-> kind, pre |-> pre, word |-> word, over |-> over, gap |-> gap,
         n |-> n, a |-> a, sep |-> sep, b |-> b, post |-> post]
  IN { case("none", pre, "", "", "", 0, 0, "", 0, post) :
         pre \in PriceBefore, post \in PriceAfter }
     \cup { case("under", pre, w, "", gap, n, 0, "", 0, post) :
              pre \in PriceBefore, w \in UnderWords, gap \in {"", " "},
              n \in Amounts, post \in PriceAfter }
     \cup { case("over", pre, w, "", gap, n, 0, "", 0, post) :
              pre \in PriceBefore, w \in OverWords, gap \in {"", " "},
              n \in Amounts, post \in PriceAfter }
     \cup { case("range", pre, "", "", "", 0, a, sep, b, post) :
              pre \in PriceBefore, a \in Amounts, sep \in RangeSeps,
              b \in Amounts, post \in PriceAfter }
     \cup { case(kind, "", w, "", " ", n, a, sep, b, " robux") :
              kind \in {"word_range", "range_word"},
              w \in UnderWords \cup OverWords, n \in Amounts, a \in Amounts,
              sep \in {"-", " to "}, b \in Amounts }
     \cup { case(kind, "", w, o, " ", n, 0, "", m, "") :
              kind \in {"over_under", "under_over"},
              w \in UnderWords, o \in OverWords, n \in Amounts, m \in Amounts }

\* the text of a case; in over_under and under_over, b is the amount of
\* the over phrase and n the amount of the under phrase
PriceText(c) ==
  LET phrase == c.word \o c.gap \o IntStr(c.n)
      range == IntStr(c.a) \o c.sep \o IntStr(c.b)
      overp == c.over \o c.gap \o IntStr(c.b)
  IN c.pre
     \o (CASE c.kind = "none" -> ""
           [] c.kind \in {"under", "over"} -> phrase
           [] c.kind = "range" -> range
           [] c.kind = "word_range" -> phrase \o " " \o range
           [] c.kind = "range_word" -> range \o " " \o phrase
           [] c.kind = "over_under" -> overp \o " " \o phrase
           [] c.kind = "under_over" -> phrase \o " " \o overp)
     \o c.post

\* one call parse_price(text); parse_price reads and writes no state, so
\* a behaviour makes one call of one helper
ParsePrice(c) ==
  /\ helper.fn = ""
  /\ helper' = [NoHelper EXCEPT !.fn = "parse_price", !.text = PriceText(c),
                                !.case = c, !.price = parse_price(PriceText(c))]
  /\ UNCHANGED <<USER_SESSIONS, calls, result, turns, ncalls, lastStep, prevStep,
                 lastCall, returned, run, planned, search, chat>>

\* the keyword groups of detect_subcategory, in the order of its if/elif chain
SubcategoryGroups ==
  << [words |-> <<"hat", "helmet", "cap", "beanie">>, id |-> 9],
     [words |-> <<"shirt", "top", "blouse">>, id |-> 12],
     [words |-> <<"tshirt", "t-shirt", "tee">>, id |-> 13],
     [words |-> <<"pants", "trousers", "jeans">>, id |-> 14],
     [words |-> <<"hair", "hairstyle">>, id |-> 20],
     [words |-> <<"mask", "eyepatch", "glasses">>, id |-> 21],
     [words |-> <<"back", "wings", "cape", "jetpack">>, id |-> 25] >>

\* the keyword groups of detect_genre, in the order of its if/elif chain
GenreGroups ==
  << [words |-> <<"medieval", "knight", "castle", "armor">>, id |-> 2],
     [words |-> <<"sci-fi", "scifi", "futuristic", "space", "robot">>, id |-> 3],
     [words |-> <<"fighting", "combat", "warrior">>, id |-> 4],
     [words |-> <<"horror", "scary", "spooky", "zombie">>, id |-> 5],
     [words |-> <<"western", "cowboy", "sheriff">>, id |-> 10],
     [words |-> <<"military", "soldier", "army">>, id |-> 11],
     [words |-> <<"rpg", "fantasy", "magic">>, id |-> 15] >>

\* if any(word in text ...): return id  elif ... : the id of the first group
\* one of whose words occurs in text, NoInt (None) when no group has one
FirstGroup(groups, text) ==
  IF \E i \in 1..Len(groups) : AnyIn(groups[i].words, text)
  THEN groups[CHOOSE i \in 1..Len(groups) :
                /\ AnyIn(groups[i].words, text)
                /\ \A j \in 1..(i - 1) : ~AnyIn(groups[j].words, text)].id
  ELSE NoInt

\* detect_subcategory(text)
detect_subcategory(text) == FirstGroup(SubcategoryGroups, Lower(text))

\* detect_genre(text)
detect_genre(text) == FirstGroup(GenreGroups, Lower(text))

\* the texts the detectors are applied to
DetectTexts ==
  {"", "something random", "red ninja outfit under 500 robux",
   "a red hat", "Knight Helmet", "baseball cap", "beanie and jeans",
   "casual shirt and pants", "crop top", "silk blouse", "white tshirt",
   "graphic t-shirt", "band tee", "TSHIRT", "tee with a cape",
   "ripped jeans", "trousers", "long hair", "new hairstyle", "ski mask",
   "pirate eyepatch", "glasses and wings", "angel wings", "jetpack",
   "backpack for my back", "cape with a hat", "hat with a cape",
   "medieval knight", "castle guard", "shiny armor", "sci-fi suit",
   "SciFi robot", "futuristic knight armor with cape", "space warrior",
   "street fighting", "combat boots", "horror mask", "scary zombie",
   "spooky cowboy", "western sheriff", "military soldier", "army pants",
   "fantasy soldier", "rpg magic", "magic hat", "zombie knight",
   "warrior of the castle", "cowboy robot"}

\* one call detect_subcategory(text)
DetectSubcategory(text) ==
  /\ helper.fn = ""
  /\ helper' = [NoHelper EXCEPT !.fn = "detect_subcategory", !.text = text,
                                !.id = detect_subcategory(text)]
  /\ UNCHANGED <<USER_SESSIONS, calls, result, turns, ncalls, lastStep, prevStep,
                 lastCall, returned, run, planned, search, chat>>

\* one call detect_genre(text)
DetectGenre(text) ==
  /\ helper.fn = ""
  /\ helper' = [NoHelper EXCEPT !.fn = "detect_genre", !.text = text,
                                !.id = detect_genre(text)]
  /\ UNCHANGED <<USER_SESSIONS, calls, result, turns, ncalls, lastStep, prevStep,
                 lastCall, returned, run, planned, search, chat>>

\* most candidates handed to the ranker
MaxCandidates == 12

\* the types of the candidates
RankTypes == {"Head", "Shirt", "Pants"}

\* the candidate lists: a pattern of up to three types repeated up to
\* MaxCandidates items; the asset id of a candidate is its position
CandidateLists ==
  LET patterns == UNION { [1..k -> RankTypes] : k \in 1..3 }
      list(p, len) ==
        [i \in 1..len |-> [assetId |-> IntStr(i),
                           type |-> p[((i - 1) % Len(p)) + 1]]]
  IN { list(p, len) : p \in patterns, len \in 0..MaxCandidates }

\* the target counts handed to the ranker (orchestrator.chat passes 8, the
\* default is 6)
RankTargets == {-1, 0, 1, 2, 3, 6, 8, 10, 11}

\* one call LightRanker.run(candidates, n)
Rank(candidates, n) ==
  /\ helper.fn = ""
  /\ helper' = [NoHelper EXCEPT !.fn = "LightRanker.run",
                                !.candidates = candidates, !.n = n,
                                !.ranked = LightRankerRun(candidates, n)]
  /\ UNCHANGED <<USER_SESSIONS, calls, result, turns, ncalls, lastStep, prevStep,
                 lastCall, returned, run, planned, search, chat>>

NextHelper ==
  \/ \E c \in PriceCases : ParsePrice(c)
  \/ \E text \in DetectTexts : DetectSubcategory(text)
  \/ \E text \in DetectTexts : DetectGenre(text)
  \/ \E candidates \in CandidateLists, n \in RankTargets : Rank(candidates, n)

SpecHelper == Init /\ [][NextHelper]_vars

\* C21: parse_price gives a maximum only for an under phrase, a minimum only
\* for an over phrase, both for a range, the range's values when a range
\* stands next to an under or over phrase, and no key for a text with no
\* price phrase.
C21_ParsePricePhrases ==
  helper.fn = "parse_price"
  => LET price(c, p) ==
           /\ c.kind = "none" => p.MinPrice = NoInt /\ p.MaxPrice = NoInt
           /\ c.kind = "under" => p.MinPrice = NoInt /\ p.MaxPrice = c.n
           /\ c.kind = "over" => p.MinPrice = c.n /\ p.MaxPrice = NoInt
           /\ c.kind \in {"range", "word_range", "range_word"}
                => p.MinPrice = c.a /\ p.MaxPrice = c.b
           /\ c.kind \in {"over_under", "under_over"}
                => p.MinPrice = c.b /\ p.MaxPrice = c.n
     IN price(helper.case, helper.price)

\* parse_price has parsed the text of the scenario
C21_Witness ==
  /\ helper.fn = "parse_price"
  /\ helper.text = "red ninja outfit under 500 robux"
  /\ helper.price = [MinPrice |-> NoInt, MaxPrice |-> 500]

\* C30: when parse_price returns both a minimum and a maximum price, the
\* minimum is at most the maximum.
C30_PriceIntervalNotEmpty ==
  (/\ helper.fn = "parse_price"
   /\ helper.price.MinPrice # NoInt
   /\ helper.price.MaxPrice # NoInt)
  => helper.price.MinPrice <= helper.price.MaxPrice

\* C25: a detector returns the id of the first keyword group, in declaration
\* order, one of whose keywords occurs in the lowercased text, and nothing
\* when no keyword occurs; a text that mentions tshirt or t-shirt is
\* reported as TShirts (13).
C25_DetectorsFirstMatch ==
  helper.fn \in {"detect_subcategory", "detect_genre"}
  => LET first(groups, text, id) ==
           /\ (\A i \in 1..Len(groups) : ~AnyIn(groups[i].words, text))
                => id = NoInt
           /\ \A i \in 1..Len(groups) :
                (/\ AnyIn(groups[i].words, text)
                 /\ \A j \in 1..(i - 1) : ~AnyIn(groups[j].words, text))
                => id = groups[i].id
     IN /\ first(IF helper.fn = "detect_genre"
                 THEN GenreGroups ELSE SubcategoryGroups,
                 Lower(helper.text), helper.id)
        /\ (/\ helper.fn = "detect_subcategory"
            /\ AnyIn(<<"tshirt", "t-shirt">>, Lower(helper.text)))
           => helper.id = 13

\* the keys of the dict run_conversation_agent returned: every return
\* statement has action, reply and outfit, three of them have plan as well
ResultKeys(r) ==
  {"action", "reply", "outfit"} \cup (IF r.has_plan THEN {"plan"} ELSE {})

\* C22: the dict run_conversation_agent returns has a theme key.
C22_ThemeFieldPresent ==
  result.user # 0 => "theme" \in ResultKeys(result)

ExtraSlots(plan) == SubSeq(PlanSlots(plan), 4, Len(plan))

\* C24 as stated: knight or armor adds Back Accessory and Front Accessory,
\* ninja or stealth adds Face and Back Accessory, formal or fancy adds Neck
\* Accessory, and every other text gets exactly Back Accessory.
C24_ThemeExtrasAsStated ==
  (planned.called /\ planned.target_slot \in {None, ""})
  => LET extras(text, added) ==
           /\ AnyIn(<<"knight", "armor">>, text)
                => added = <<"Back Accessory", "Front Accessory">>
           /\ (~AnyIn(<<"knight", "armor">>, text)
                /\ AnyIn(<<"ninja", "stealth">>, text))
                => added = <<"Face", "Back Accessory">>
           /\ (~AnyIn(<<"knight", "armor", "ninja", "stealth">>, text)
                /\ AnyIn(<<"formal", "fancy">>, text))
                => added = <<"Neck Accessory">>
           /\ ~AnyIn(<<"knight", "armor", "ninja", "stealth", "formal", "fancy">>,
                     text)
                => added = <<"Back Accessory">>
     IN extras(Lower(planned.user_text), ExtraSlots(planned.plan))

\* C24, amended: the first theme, in this order, with a keyword in the text
\* decides the added slots: knight, medieval, armor or warrior adds Back
\* Accessory and Front Accessory; ninja, stealth or dark adds Face and Back
\* Accessory; casual, everyday or simple adds nothing; fancy, formal or
\* elegant adds Neck Accessory; a text with none of these keywords gets
\* exactly Back Accessory.
C24_ThemeExtras ==
  (planned.called /\ planned.target_slot \in {None, ""})
  => LET themes ==
           << [words |-> <<"knight", "medieval", "armor", "warrior">>,
               adds |-> <<"Back Accessory", "Front Accessory">>],
              [words |-> <<"ninja", "stealth", "dark">>,
               adds |-> <<"Face", "Back Accessory">>],
              [words |-> <<"casual", "everyday", "simple">>, adds |-> << >>],
              [words |-> <<"fancy", "formal", "elegant">>,
               adds |-> <<"Neck Accessory">>] >>
         extras(text, added) ==
           /\ \A i \in 1..Len(themes) :
                (/\ AnyIn(themes[i].words, text)
                 /\ \A j \in 1..(i - 1) : ~AnyIn(themes[j].words, text))
                => added = themes[i].adds
           /\ (\A i \in 1..Len(themes) : ~AnyIn(themes[i].words, text))
                => added = <<"Back Accessory">>
     IN extras(Lower(planned.user_text), ExtraSlots(planned.plan))

\* a new-outfit plan for a casual text: the core pieces and nothing added
C24_Witness ==
  /\ planned.called
  /\ planned.target_slot = None
  /\ planned.user_text = "elegant casual wear"
  /\ PlanSlots(planned.plan) = <<"Head", "Shirt", "Pants">>

\* C27: LightRanker.run returns min(n, 10, number of candidates) items,
\* none when n <= 0; every item returned is a candidate and none is
\* returned twice; a second item of a type is returned only after the first
\* item of every type; with at least as many types as the target count the
\* items returned have pairwise different types.
C27_RankerDiverse ==
  helper.fn = "LightRanker.run"
  => LET Min(x, y) == IF x < y THEN x ELSE y
         isfirst(c, it) ==
           \A i \in 1..Len(c) :
             c[i] = it => \A j \in 1..(i - 1) : c[j].type # it.type
         ranked(c, n, out) ==
           /\ Len(out) = (IF n <= 0 THEN 0 ELSE Min(Min(n, 10), Len(c)))
           /\ \A k \in 1..Len(out) : \E i \in 1..Len(c) : c[i] = out[k]
           /\ \A k, l \in 1..Len(out) : k # l => out[k] # out[l]
           /\ \A k \in 1..Len(out) :
                ~isfirst(c, out[k])
                => \A i \in 1..Len(c) :
                     isfirst(c, c[i]) => \E l \in 1..(k - 1) : out[l] = c[i]
           /\ Cardinality({ c[i].type : i \in 1..Len(c) }) >= Min(n, 10)
                => \A k, l \in 1..Len(out) : k # l => out[k].type # out[l].type
     IN ranked(helper.candidates, helper.n, helper.ranked)

\* the ranker was given more than ten candidates of two types, the first
\* two of one type, and a target above ten: it returned ten, the first
\* item of each type first
C27_Witness ==
  /\ helper.fn = "LightRanker.run"
  /\ helper.n = 11
  /\ Len(helper.candidates) = 12
  /\ Len(helper.ranked) = 10
  /\ helper.candidates[2].type = helper.candidates[1].type
  /\ helper.ranked[2] # helper.candidates[2]
  /\ helper.ranked[1].type # helper.ranked[2].type

\* C26: after a show_more step on a filled slot whose lookup returned no
\* item or one item, the slot's rotation index is 0.
C26_SmallPoolResetsIndex ==
  (/\ lastStep.kind = "items"
   /\ lastStep.action = "show_more"
   /\ Len(lastStep.items) <= 1
   /\ AssetOf(lastStep.before, lastStep.slot) # None)
  => IndexOf(StepSession, lastStep.slot) = 0

\* C28: in every session the slots with an outfit entry, the slots with
\* stored params and the slots with a stored rotation index are the same.
C28_SlotTablesAgree ==
  \A u \in DOMAIN USER_SESSIONS :
    LET keys(d) == { d[i].k : i \in 1..Len(d) }
        agree(session) ==
          /\ keys(session.current_outfit) = keys(session.last_params_by_slot)
          /\ keys(session.current_outfit) = keys(session.last_index_by_slot)
    IN agree(USER_SESSIONS[u])

\* C29: after a step that changed a slot, the slot's stored rotation index
\* is at least 0 and less than the length of the pool the step received,
\* and the slot's asset is the item of the pool at that index.
C29_IndexWithinPool ==
  (/\ lastStep.kind = "items"
   /\ Len(lastStep.items) > 0
   /\ SlotView(StepSession, lastStep.slot)
        # SlotView(lastStep.before, lastStep.slot))
  => LET inpool(index, asset, pool) ==
           /\ index \in 0..(Len(pool) - 1)
           /\ pool[index + 1].assetId = asset
     IN inpool(IndexOf(StepSession, lastStep.slot),
               AssetOf(StepSession, lastStep.slot), lastStep.items)

====
